---- MODULE Spec2Model ----
(***************************************************************************)
(* Model of examples/plot_cvst.py: the measurement_worker thread pushes    *)
(* one sample per tick onto data_queue; main() dequeues samples, appends   *)
(* them to the history lists and to the data file, updates the live plot   *)
(* line, and on loop exit closes the file and instruments and exports the  *)
(* plot.  Qt7600 (qt7600.py) and QuantumDesignClient are modelled by the   *)
(* fields the pipeline reads and writes.                                   *)
(***************************************************************************)
EXTENDS Integers, Sequences, FiniteSets, TLC

(* ---------------------------------------------------------------------- *)
(* Bounds of the model                                                     *)
(* ---------------------------------------------------------------------- *)
\* the worker starts at most MaxTicks iterations of its while True loop
MaxTicks == 2
\* --samples ranges over 0..MaxSamples
MaxSamples == 1
\* at most MaxFaults faults of the environment occur in a run: an instrument
\* read of a live instrument that raises, a data_file.write that raises, a
\* KeyboardInterrupt arriving inside the inner try of the loop, a plot update
\* of the inner try that raises, a refresh of the figure that raises, an
\* open of the data file at startup that raises
MaxFaults == 1
\* config.txt holds at most MaxLines key=value lines
MaxLines == 2

(* ---------------------------------------------------------------------- *)
(* Values                                                                  *)
(* ---------------------------------------------------------------------- *)
\* Python None and a float v are <<>> and <<v>>
None == <<>>
Some(v) == <<v>>

\* readings a live MultiVu client returns on success
LiveTemperatures == {280}
LiveFields == {1000}
\* capacitance carried by a well-formed FETC? response, and the first float
\* found in a response whose primary column does not parse
CapPrimary == 7
CapRaw == 9

\* FETC? responses the instrument sends: "good", the primary column parses;
\* "empty", the empty string ("odd": the primary column does not parse but the
\* text holds a float)
Responses == {"good", "empty"}

\* a missing string (Python None where a str is expected)
NoText == "<None>"

\* the VISA resource string of the QT-7600 (the default of --qt)
ResourceName == "GPIB0::10::INSTR"

Min(a, b) == IF a <= b THEN a ELSE b

\* parse_first_float(s): first float in the text, None when there is none
parse_first_float(s) ==
    IF s = NoText THEN None
    ELSE IF s = "good" THEN Some(CapPrimary)
    ELSE IF s = "odd" THEN Some(CapRaw)
    ELSE None

\* Qt7600._parse_fetch_response(raw): the "raw" and "primary" entries
parse_fetch_response(raw) ==
    IF raw = "empty" THEN [raw |-> raw, primary |-> None]
    ELSE IF raw = "good" THEN [raw |-> raw, primary |-> Some(CapPrimary)]
    ELSE [raw |-> raw, primary |-> None]

\* lines 175-177: cval from the parsed response
CapFromResponse(res) ==
    IF res.primary # None THEN res.primary ELSE parse_first_float(res.raw)

\* QuantumDesignClient.get_temperature / get_field in mock mode
MockTemperature(c) == 300 - (c * 5)
MockField(c) == c * 500

(* ---------------------------------------------------------------------- *)
(* Configuration: load_config (lines 48-90) and parse_args (lines 216-228) *)
(* ---------------------------------------------------------------------- *)
\* the dict load_config starts from (lines 53-61)
Defaults == [interval |-> 1, out |-> "cvst.png", data |-> "", plot_vs |-> "temperature",
             continuous |-> TRUE, samples |-> 20]

\* texts float() and int() accept, and the number each denotes; any other
\* text makes them raise ValueError
NumericTexts == {"3", "5", "0", "-1"}
NumberOf(t) == IF t = "3" THEN 3 ELSE IF t = "5" THEN 5 ELSE IF t = "0" THEN 0 ELSE -1

\* str.lower() on the texts of the model
Lower(t) == IF t = "YES" THEN "yes" ELSE t
\* line 81
TruthTexts == {"true", "1", "yes"}

\* key=value lines a config.txt may hold, as <<key, value text>>
ConfigLines ==
    {<<"interval", "3">>, <<"interval", "abc">>, <<"interval", "0">>,
     <<"samples", "5">>, <<"samples", "abc">>, <<"samples", "-1">>,
     <<"continuous", "YES">>, <<"continuous", "false">>, <<"continuous", "maybe">>,
     <<"plot_vs", "field">>, <<"plot_vs", "">>, <<"plot_vs", "pressure">>,
     <<"data", "run.txt">>, <<"data", "">>,
     <<"out", "a.png">>, <<"out", "">>}

\* the files: no lines (or no file, line 64) up to MaxLines lines
ConfigFiles == UNION {[1..n -> ConfigLines] : n \in 0..MaxLines}

\* a command line gives each option or leaves it out; type=float and type=int
\* accept any number, choices (line 224) limits --plot-vs to the two axes
CommandLines ==
    [interval : {None, Some(7), Some(-1)}, samples : {None, Some(9), Some(-1)},
     continuous : {None, Some(FALSE)},
     plot_vs : {None, Some("temperature"), Some("field")},
     data : {None, Some("cli.txt")}, out : {None, Some("cli.png")}]

\* lines 76-84 for one line: <<"ok", the dict after it>>, or <<"raise">> when
\* float() or int() raises
apply_line(config, l) ==
    LET key == l[1]
        val == l[2]
    IN  IF key = "interval"
        THEN IF val \in NumericTexts
             THEN <<"ok", [config EXCEPT !.interval = NumberOf(val)]>>
             ELSE <<"raise">>
        ELSE IF key = "samples"
        THEN IF val \in NumericTexts
             THEN <<"ok", [config EXCEPT !.samples = NumberOf(val)]>>
             ELSE <<"raise">>
        ELSE IF key = "continuous"
        THEN <<"ok", [config EXCEPT !.continuous = (Lower(val) \in TruthTexts)]>>
        ELSE IF val # ""
        THEN <<"ok", [config EXCEPT ![key] = val]>>
        ELSE <<"ok", config>>

\* the for loop of lines 69-84 from line i on: the try of line 67 encloses
\* the whole loop, so a line that raises ends the reading of the file
RECURSIVE LoadFrom(_, _, _)
LoadFrom(config, file, i) ==
    IF i > Len(file) THEN config
    ELSE LET r == apply_line(config, file[i])
         IN  IF r[1] = "raise" THEN config ELSE LoadFrom(r[2], file, i + 1)

\* load_config: the defaults overlaid with the lines of the file
load_config(file) == LoadFrom(Defaults, file, 1)

\* lines 216-228: each option's default is the config value (None for an
\* empty data path); a value on the command line replaces the default
parse_args(config, av) ==
    [interval |-> IF av.interval # None THEN av.interval[1] ELSE config.interval,
     samples |-> IF av.samples # None THEN av.samples[1] ELSE config.samples,
     continuous |-> IF av.continuous # None THEN av.continuous[1] ELSE config.continuous,
     plot_vs |-> IF av.plot_vs # None THEN av.plot_vs[1] ELSE config.plot_vs,
     out |-> IF av.out # None THEN av.out[1] ELSE config.out,
     data |-> IF av.data # None THEN av.data
              ELSE IF config.data # "" THEN Some(config.data) ELSE None]

\* a command line that gives no option
NoOverrides == [interval |-> None, samples |-> None, continuous |-> None,
                plot_vs |-> None, data |-> None, out |-> None]

(* ---------------------------------------------------------------------- *)
(* Data file lines                                                         *)
(* ---------------------------------------------------------------------- *)
\* str() of an optional float inside an f-string: None prints as "None"
FormatOpt(x) == IF x = None THEN <<"None">> ELSE <<"num", x[1]>>
\* f'{elapsed:.2f}': the clock of the model counts whole seconds
FormatElapsed(e) == <<"num.2f", e>>
\* line 338 / line 405
FormatRow(elapsed, t, f, c) ==
    <<"row", <<FormatElapsed(elapsed), FormatOpt(t), FormatOpt(f), FormatOpt(c)>>>>
\* line 305 and line 403 (the two headers differ in the capacitance unit)
HeaderAppend == <<"header (F)", <<>>>>
HeaderRewrite == <<"header (pF)", <<>>>>
\* a line left in the file by an earlier run
OldLine == <<"old", <<>>>>

VARIABLES
    args,           \* parsed command line: continuous, samples, plot_vs, data, mock_q, mock_qt, interval
    mpc,            \* position of main()
    wpc,            \* position of measurement_worker
    now,            \* time.time()
    qt_inst,        \* Qt7600.inst: "none" or "open"
    qd_client,      \* QuantumDesignClient.client: "none", "entered", "exited"
    qd_server,      \* QuantumDesignClient.server: "none", "entered", "exited"
    counter,        \* qd.counter
    start_time,     \* worker's start_time
    w,              \* worker locals: elapsed, t, f, cval
    data_queue,     \* Queue contents, head first
    temps, caps, fields, times,
    sample_count,
    data_file,      \* "none", "open", "closed"
    buf,            \* lines written to data_file and not yet flushed
    disk,           \* lines of the file at args.data
    line_data,      \* <<xs, ys>> last given to line.set_data
    plot_out,       \* None, or <<line data>> saved by plt.savefig
    interrupts,     \* KeyboardInterrupts delivered to the main thread so far
    write_failures, \* calls of data_file.write that raised so far
    read_failures,  \* reads of a live, open instrument that raised so far
    trigger,        \* why main left the loop: "none", "limit" (break), "interrupt" or "error"
    disk0,          \* lines of the file at args.data when the run began
    produced,       \* history: every sample put on data_queue, in order
    dequeued,       \* history: every sample returned by data_queue.get, in order
    path_exists,    \* os.path.exists(args.data)
    left_at,        \* history: Len(produced) when main left the try block, -1 before
    config_file,    \* lines of config.txt, each <<key, text after the "=">>
    argv,           \* command line: for each option None, or Some(value given)
    resolved,       \* None, or Some(options parse_args returned)
    steps,          \* history: failures met by main and the messages printed for them,
                    \* the calls of the finally clause, the export
    resource_name,  \* Qt7600.resource_name: NoText, or the VISA resource string
    in_with,        \* TRUE inside a `with Qt7600(...) as qt:` block
    io,             \* history: what the wrappers asked of the objects beneath them
                    \* (VISA resource manager and handle, MultiVu server and client)
    calls           \* history: the finished calls of Qt7600 / QuantumDesignClient methods

vars == <<args, mpc, wpc, now, qt_inst, qd_client, qd_server, counter, start_time, w,
          data_queue, temps, caps, fields, times, sample_count, data_file, buf, disk,
          line_data, plot_out, interrupts, produced, dequeued, path_exists, left_at,
          write_failures, read_failures, trigger, disk0, steps,
          config_file, argv, resolved, resource_name, in_with, io, calls>>

\* what load_config and parse_args read and return
config_vars == <<config_file, argv, resolved>>

\* the Qt7600 / QuantumDesignClient objects seen from their caller
driver_vars == <<resource_name, in_with, io, calls>>

\* bookkeeping of main that only the loop and its exits change
trace_vars == <<interrupts, dequeued, left_at, write_failures, trigger, disk0>>
main_vars == <<args, mpc, qt_inst, qd_client, qd_server, temps, caps, fields, times,
               sample_count, data_file, buf, disk, path_exists, line_data, plot_out,
               trace_vars, steps>>
hist_vars == <<temps, caps, fields, times, sample_count, line_data>>
file_vars == <<data_file, buf, disk, path_exists>>
inst_vars == <<qt_inst, qd_client, qd_server>>
worker_vars == <<wpc, now, counter, start_time, w, produced, read_failures>>

\* worker locals; rt, rf, rc record what the three reads of the tick did:
\* <<"raise">>, or <<"ok", value returned>> (<<>> before the read); ops records
\* the operations of the last tick in the order they were performed
NoLocals == [elapsed |-> 0, t |-> None, f |-> None, cval |-> None,
             rt |-> <<>>, rf |-> <<>>, rc |-> <<>>, ops |-> <<>>]

\* main's and the worker's state before line 230 of a run with options args
BeforeOpen ==
    /\ mpc = "open_qt"
    /\ wpc = "idle"
    /\ now = 0
    /\ qt_inst = "none"
    /\ qd_client = "none"
    /\ qd_server = "none"
    /\ counter = 0
    /\ start_time = 0
    /\ w = NoLocals
    /\ data_queue = <<>>
    /\ temps = <<>> /\ caps = <<>> /\ fields = <<>> /\ times = <<>>
    /\ sample_count = 0
    /\ data_file = "none"
    /\ buf = <<>>
    /\ path_exists \in (IF args.data THEN BOOLEAN ELSE {FALSE})
    /\ disk0 = IF path_exists THEN <<OldLine>> ELSE <<>>
    /\ disk = disk0
    /\ write_failures = 0
    /\ read_failures = 0
    /\ trigger = "none"
    /\ line_data = <<<<>>, <<>>>>
    /\ plot_out = None
    /\ interrupts = 0
    /\ produced = <<>>
    /\ dequeued = <<>>
    /\ left_at = -1
    /\ steps = <<>>
    /\ in_with = FALSE
    /\ io = <<>>
    /\ calls = <<>>

\* the pipeline after parse_args: any resolved options, no config file read
Init ==
    /\ args \in [continuous : BOOLEAN, samples : 0..MaxSamples,
                 plot_vs : {"temperature", "field"}, data : BOOLEAN,
                 mock_q : BOOLEAN, mock_qt : BOOLEAN, interval : {1}]
    /\ config_file = <<>>
    /\ argv = NoOverrides
    /\ resolved = None
    /\ resource_name = ResourceName
    /\ BeforeOpen

\* before load_config: any config file and command line; the pipeline
\* variables are those of a run that has not begun
InitConfig ==
    /\ config_file \in ConfigFiles
    /\ argv \in CommandLines
    /\ resolved = None
    /\ args = [continuous |-> FALSE, samples |-> 0, plot_vs |-> "temperature",
               data |-> FALSE, mock_q |-> TRUE, mock_qt |-> TRUE, interval |-> 1]
    /\ resource_name = ResourceName
    /\ BeforeOpen

\* lines 199 and 228: config = load_config("config.txt"); args = p.parse_args()
ResolveConfig ==
    /\ resolved = None
    /\ resolved' = Some(parse_args(load_config(config_file), argv))
    /\ UNCHANGED <<config_file, argv>>
    /\ UNCHANGED driver_vars
    /\ UNCHANGED main_vars
    /\ UNCHANGED <<worker_vars, data_queue>>

NextConfig == ResolveConfig

SpecConfig == InitConfig /\ [][NextConfig]_vars

(* ---------------------------------------------------------------------- *)
(* measurement_worker (daemon thread)                                      *)
(* ---------------------------------------------------------------------- *)
\* a daemon thread runs only while the process does
ProcessAlive == mpc # "exited"

\* the history holds the entry c, and how many times
Called(c) == \E i \in 1..Len(steps) : steps[i] = c
Count(c) == Cardinality({i \in 1..Len(steps) : steps[i] = c})

\* KeyboardInterrupts that did not end the loop
Swallowed == interrupts - (IF trigger = "interrupt" THEN 1 ELSE 0)
\* faults of the environment so far
Faults == read_failures + write_failures + Swallowed
          + Count("plot_update_raises") + Count("refresh_raises")
          + Count("open_data_raises")

\* what a read that raised leaves in the local, and what one that returned v leaves
Raised == <<"raise">>
Returned(v) == <<"ok", v>>

\* outcomes of qd.get_temperature() (lines 120-132): the mock ramp; RuntimeError
\* when client is None; otherwise client.get_temperature() returns or raises
TemperatureOutcomes ==
    IF args.mock_q THEN {Returned(MockTemperature(counter))}
    ELSE IF qd_client = "none" THEN {Raised}
    ELSE {Returned(v) : v \in LiveTemperatures} \cup {Raised}

\* outcomes of qd.get_field() (lines 134-146)
FieldOutcomes ==
    IF args.mock_q THEN {Returned(MockField(counter))}
    ELSE IF qd_client = "none" THEN {Raised}
    ELSE {Returned(v) : v \in LiveFields} \cup {Raised}

\* outcomes of qt.measure_and_fetch(): qt is None with --mock-qt (AttributeError),
\* Qt7600.write raises RuntimeError when inst is None, the VISA calls may raise
FetchOutcomes ==
    IF args.mock_qt THEN {Raised}
    ELSE IF qt_inst # "open" THEN {Raised}
    ELSE {Returned(parse_fetch_response(raw)) : raw \in Responses} \cup {Raised}

\* the raises among three outcomes that are faults of the environment: those
\* of a live MultiVu client and of an open QT-7600
FaultsOf(ot, of, oc) ==
    (IF ot = Raised /\ ~args.mock_q /\ qd_client # "none" THEN 1 ELSE 0)
    + (IF of = Raised /\ ~args.mock_q /\ qd_client # "none" THEN 1 ELSE 0)
    + (IF oc = Raised /\ ~args.mock_qt /\ qt_inst = "open" THEN 1 ELSE 0)

\* lines 158-162 and 165-169: the except clause turns a raise into None
ValueOrNone(o) == IF o = Raised THEN None ELSE Some(o[2])

\* a capacitance read that raised keeping the value of the tick before
CapOrNone_Stale(o) == IF o = Raised THEN w.cval ELSE CapFromResponse(o[2])

\* lines 173-180
CapOrNone(o) == IF o = Raised THEN None ELSE CapFromResponse(o[2])

\* lines 151-152, run when the thread starts
WorkerStart ==
    /\ wpc = "start"
    /\ ProcessAlive
    /\ counter' = 0
    /\ start_time' = now
    /\ wpc' = "running"
    /\ UNCHANGED <<now, w, produced, read_failures, data_queue>>
    /\ UNCHANGED main_vars
    /\ UNCHANGED config_vars
    /\ UNCHANGED driver_vars

\* the dict of lines 185-190
SampleOf(l) == [time |-> l.elapsed, temp |-> l.t, field |-> l.f, cap |-> l.cval]

\* Queue.put: append at the tail
QueuePut(q, x) == Append(q, x)

\* line 192: f"{t:.2f}" and f"{f:.0f}" raise TypeError when t or f is None
PrintRaises(l) == l.t = None \/ l.f = None

\* position of the worker after line 192: an exception raised by print is
\* caught nowhere and ends the thread
AfterPrint(l) == IF PrintRaises(l) THEN "dead" ELSE "running"

\* the difference taken the wrong way round
ElapsedSince_Reversed(n, s) == s - n

\* line 155: elapsed = time.time() - start_time
ElapsedSince(n, s) == n - s

\* the elapsed time taken after the reads
ReadOrder_ElapsedLast == <<"temperature", "field", "primary", "elapsed">>

\* lines 155-182: elapsed (155), get_temperature (159), get_field (166),
\* measure_and_fetch (174), each called once
ReadOrder == <<"elapsed", "temperature", "field", "primary">>

\* lines 155-194: after the reads the put (185) and the print (192); counter
\* += 1 and sleep(interval) (193-194) only when the print did not raise
OpsOfTick(l) ==
    ReadOrder \o <<"push">> \o (IF PrintRaises(l) THEN <<>> ELSE <<"sleep">>)

\* one try around the three reads: a raise in one skips those after it
LocalsAfterReads_OneTry(ot, of, oc) ==
    [elapsed |-> ElapsedSince(now, start_time),
     t |-> ValueOrNone(ot),
     f |-> IF ot = Raised THEN None ELSE ValueOrNone(of),
     cval |-> IF ot = Raised \/ of = Raised THEN None ELSE CapOrNone(oc),
     rt |-> ot, rf |-> of, rc |-> oc, ops |-> <<>>]

\* the locals after lines 155-182: elapsed, then the three reads in order, each
\* in its own try/except (the test of line 172 is always true: __init__ sets client)
LocalsAfterReads(ot, of, oc) ==
    [elapsed |-> ElapsedSince(now, start_time),
     t |-> ValueOrNone(ot), f |-> ValueOrNone(of), cval |-> CapOrNone(oc),
     rt |-> ot, rf |-> of, rc |-> oc, ops |-> <<>>]

\* one iteration of the while True loop, lines 154-194: the reads, the put,
\* the print; counter += 1 and sleep(interval) when the print did not raise
WorkerTick ==
    /\ wpc = "running"
    /\ ProcessAlive
    /\ counter < MaxTicks
    /\ \E ot \in TemperatureOutcomes, of \in FieldOutcomes, oc \in FetchOutcomes :
          /\ Faults + FaultsOf(ot, of, oc) <= MaxFaults
          /\ read_failures' = read_failures + FaultsOf(ot, of, oc)
          /\ w' = [LocalsAfterReads(ot, of, oc) EXCEPT
                       !.ops = OpsOfTick(LocalsAfterReads(ot, of, oc))]
          /\ data_queue' = QueuePut(data_queue, SampleOf(w'))
          /\ produced' = Append(produced, SampleOf(w'))
          /\ wpc' = AfterPrint(w')
          /\ IF PrintRaises(w')
             THEN UNCHANGED <<now, counter>>
             ELSE /\ counter' = counter + 1
                  /\ now' = now + args.interval
    /\ UNCHANGED start_time
    /\ UNCHANGED main_vars
    /\ UNCHANGED config_vars
    /\ UNCHANGED driver_vars

Worker ==
    \/ WorkerStart
    \/ WorkerTick

(* ---------------------------------------------------------------------- *)
(* main(): startup (lines 230-310)                                         *)
(* ---------------------------------------------------------------------- *)
\* Qt7600.close (qt7600.py lines 41-47): inst is None afterwards
QtClose(inst) == "none"

\* startup steps that can fail, by the name of the failure
StartupFailures == {"open_fails", "config_fails", "server_fails", "client_fails"}

\* the failure of a startup step is recorded in the history of calls
LogStartup(o) == IF o \in StartupFailures THEN Append(steps, o) ELSE steps

\* lines 236-250: the except clause returns from main
AfterOpenQt(o) == IF o = "ok" THEN "open_qd" ELSE "exited"

\* lines 230-250: qt stays None with --mock-qt; otherwise Qt7600.open, idn and
\* the five configuration writes.  "open_fails": open_resource raises;
\* "config_fails": a later call raises, and main returns without qt.close()
MainOpenQt ==
    /\ mpc = "open_qt"
    /\ IF args.mock_qt
       THEN /\ mpc' = "open_qd"
            /\ UNCHANGED <<qt_inst, steps>>
       ELSE \E o \in {"ok", "open_fails", "config_fails"} :
               /\ qt_inst' = IF o = "open_fails" THEN "none" ELSE "open"
               /\ steps' = LogStartup(o)
               /\ mpc' = AfterOpenQt(o)
    /\ UNCHANGED <<args, qd_client, qd_server, hist_vars, file_vars, plot_out,
                   trace_vars, data_queue>>
    /\ UNCHANGED worker_vars
    /\ UNCHANGED config_vars
    /\ UNCHANGED driver_vars

\* main goes on to start the thread although qd.open() raised
AfterOpenQd_NoReturn(o) == "start_thread"

\* lines 254-260: the except clause returns from main
AfterOpenQd(o) == IF o = "ok" THEN "start_thread" ELSE "exited"

\* lines 252-260 with QuantumDesignClient.open (lines 101-109).
\* "server_fails": ImportError or mpv.Server().__enter__() raises;
\* "client_fails": mpv.Client().__enter__() raises after the server was entered
MainOpenQd ==
    /\ mpc = "open_qd"
    /\ IF args.mock_q
       THEN /\ mpc' = "start_thread"
            /\ UNCHANGED <<inst_vars, steps>>
       ELSE \E o \in {"ok", "server_fails", "client_fails"} :
               /\ qd_server' = IF o = "server_fails" THEN "none" ELSE "entered"
               /\ qd_client' = IF o = "ok" THEN "entered" ELSE "none"
               /\ qt_inst' = IF o = "ok" \/ args.mock_qt THEN qt_inst ELSE QtClose(qt_inst)
               /\ steps' = LogStartup(o)
               /\ mpc' = AfterOpenQd(o)
    /\ UNCHANGED <<args, hist_vars, file_vars, plot_out, trace_vars, data_queue>>
    /\ UNCHANGED worker_vars
    /\ UNCHANGED config_vars
    /\ UNCHANGED driver_vars

\* lines 262-293: empty history, the queue, the thread, the empty plot line
MainStartThread ==
    /\ mpc = "start_thread"
    /\ temps' = <<>> /\ caps' = <<>> /\ fields' = <<>> /\ times' = <<>>
    /\ data_queue' = <<>>
    /\ wpc' = "start"
    /\ line_data' = <<<<>>, <<>>>>
    /\ mpc' = "open_data"
    /\ UNCHANGED <<args, steps, inst_vars, sample_count, file_vars, plot_out, trace_vars>>
    /\ UNCHANGED <<now, counter, start_time, w, produced, read_failures>>
    /\ UNCHANGED config_vars
    /\ UNCHANGED driver_vars

\* lines 295-314: open(args.data, 'a'), header only when the path did not exist,
\* flush; data_file stays None when there is no --data or the open raises
\* (line 308 prints the failure)
MainOpenData ==
    /\ mpc = "open_data"
    /\ IF args.data
       THEN \E opened \in BOOLEAN :
               IF opened
               THEN /\ data_file' = "open"
                    /\ disk' = IF path_exists THEN disk ELSE Append(disk, HeaderAppend)
                    /\ path_exists' = TRUE
                    /\ UNCHANGED steps
               ELSE /\ Faults < MaxFaults
                    /\ data_file' = "none"
                    /\ steps' = steps \o <<"open_data_raises", "print">>
                    /\ UNCHANGED <<disk, path_exists>>
       ELSE UNCHANGED <<data_file, disk, path_exists, steps>>
    /\ sample_count' = 0
    /\ mpc' = "loop"
    /\ UNCHANGED <<args, inst_vars, temps, caps, fields, times, line_data, buf,
                   plot_out, trace_vars, data_queue>>
    /\ UNCHANGED worker_vars
    /\ UNCHANGED config_vars
    /\ UNCHANGED driver_vars

(* ---------------------------------------------------------------------- *)
(* main(): delivery loop (lines 312-364)                                   *)
(* ---------------------------------------------------------------------- *)
\* the comprehension of lines 345-348 and the loops of lines 379-392 over the
\* first n positions of an axis column a and the capacitance column c: keep a
\* position when both entries are not None; which = "x" collects the axis
\* entry, "y" the capacitance entry
SelectPairs(a, c, n, which) ==
    LET F[i \in 0..n] ==
            IF i = 0 THEN <<>>
            ELSE IF a[i] # None /\ c[i] # None
                 THEN Append(F[i - 1], IF which = "x" THEN a[i] ELSE c[i])
                 ELSE F[i - 1]
    IN F[n]

\* the column args.plot_vs selects
AxisColumn(T, F) == IF args.plot_vs = "temperature" THEN T ELSE F

\* lines 344-347: zip(temps, caps) or zip(fields, caps)
LiveXs(T, F, C) ==
    SelectPairs(AxisColumn(T, F), C, Min(Len(AxisColumn(T, F)), Len(C)), "x")
\* line 348: zip(fields, temps, caps)
LiveYs(T, F, C) ==
    SelectPairs(AxisColumn(T, F), C, Min(Len(F), Min(Len(T), Len(C))), "y")
\* lines 376-393
FinalXs(T, F, C) ==
    SelectPairs(AxisColumn(T, F), C, Min(Len(AxisColumn(T, F)), Len(C)), "x")
FinalYs(T, F, C) ==
    SelectPairs(AxisColumn(T, F), C, Min(Len(AxisColumn(T, F)), Len(C)), "y")

\* a get that returns the newest item instead of the oldest
QueueHead_Newest(q) == q[Len(q)]

\* Queue.get on a non-empty queue: the head, and the rest
QueueHead(q) == Head(q)
QueueRest(q) == Tail(q)

\* the limit test without the test of args.continuous
LoopDone_IgnoreContinuous == sample_count >= args.samples

\* line 318
LoopDone == ~args.continuous /\ sample_count >= args.samples

\* lines 318-319: break into the finally clause
MainBreak ==
    /\ mpc = "loop"
    /\ LoopDone
    /\ mpc' = "finally"
    /\ left_at' = Len(produced)
    /\ trigger' = "limit"
    /\ UNCHANGED <<args, steps, inst_vars, hist_vars, file_vars, plot_out, interrupts,
                   dequeued, write_failures, disk0, data_queue>>
    /\ UNCHANGED worker_vars
    /\ UNCHANGED config_vars
    /\ UNCHANGED driver_vars

\* a get without a timeout waits for as long as the queue is empty
GetWaits_NoTimeout(q) == q = <<>>

\* line 323: get(timeout=0.1) waits for 0.1 s at most, whatever the queue holds
GetWaits(q) == FALSE

\* lines 318-323 on an empty queue: queue.Empty after the timeout, caught by
\* the bare except of line 355
MainGetEmpty ==
    /\ mpc = "loop"
    /\ ~LoopDone
    /\ data_queue = <<>>
    /\ ~GetWaits(data_queue)
    /\ mpc' = "refresh"
    /\ UNCHANGED <<args, steps, inst_vars, hist_vars, file_vars, plot_out, trace_vars, data_queue>>
    /\ UNCHANGED worker_vars
    /\ UNCHANGED config_vars
    /\ UNCHANGED driver_vars

\* statements of the inner try after the get of line 323, in order:
\* 1 temps.append  2 caps.append  3 fields.append  4 times.append
\* 5 sample_count += 1  6 data_file.write  7 data_file.flush  8 plot line update
LastStatement == 8

\* lines 340-341: the exception of the write is caught and a message printed
ReportedWrite(wfail) == IF wfail THEN <<"write_raises", "print">> ELSE <<>>

\* lines 355-356: the exception of the plot update is caught and passed over
SilentUpdate(ufail) == IF ufail THEN <<"plot_update_raises">> ELSE <<>>

\* the write of line 338 in no try of its own, its exception leaving the loop
AfterDeliver_Unwound(wfail) == IF wfail THEN "finally" ELSE "refresh"

\* where main is after lines 323-356: an exception of the write is caught at
\* line 340, anything else by line 355; either way main goes on at line 359
AfterDeliver(wfail) == "refresh"

\* lines 318-356 on a non-empty queue.  n statements complete; n < LastStatement
\* means a KeyboardInterrupt arrives after the n-th: the except clause of line
\* 355 is bare, so it catches KeyboardInterrupt as it catches queue.Empty, and
\* main goes on at line 359.  wfail: data_file.write raises (caught at line
\* 340, the flush is skipped).  ufail: a call of the plot update (lines
\* 350-353) raises an Exception, caught by line 355 like everything else.
MainDeliver ==
    /\ mpc = "loop"
    /\ ~LoopDone
    /\ data_queue # <<>>
    /\ \E n \in 0..LastStatement, wfail \in BOOLEAN, ufail \in BOOLEAN :
          LET data == QueueHead(data_queue)
              T == IF n >= 1 THEN Append(temps, data.temp) ELSE temps
              C == IF n >= 2 THEN Append(caps, data.cap) ELSE caps
              F == IF n >= 3 THEN Append(fields, data.field) ELSE fields
              row == FormatRow(data.time, data.temp, data.field, data.cap)
              writes == data_file = "open" /\ ~wfail
              B == IF n >= 6 /\ writes THEN Append(buf, row) ELSE buf
              xs == LiveXs(T, F, C)
              ys == LiveYs(T, F, C)
          IN  /\ (IF n < LastStatement THEN 1 ELSE 0) + (IF wfail THEN 1 ELSE 0)
                    + (IF ufail THEN 1 ELSE 0) + Faults <= MaxFaults
              /\ wfail => (data_file = "open" /\ n >= 6)
              /\ ufail => (n = LastStatement /\ xs # <<>> /\ ys # <<>>)
              /\ data_queue' = QueueRest(data_queue)
              /\ dequeued' = Append(dequeued, data)
              /\ temps' = T
              /\ caps' = C
              /\ fields' = F
              /\ times' = IF n >= 4 THEN Append(times, data.time) ELSE times
              /\ sample_count' = IF n >= 5 THEN sample_count + 1 ELSE sample_count
              /\ IF n >= 7 /\ writes
                 THEN disk' = disk \o B /\ buf' = <<>>
                 ELSE disk' = disk /\ buf' = B
              /\ line_data' = IF n >= LastStatement /\ ~ufail /\ xs # <<>> /\ ys # <<>>
                              THEN <<xs, ys>> ELSE line_data
              /\ interrupts' = IF n < LastStatement THEN interrupts + 1 ELSE interrupts
              /\ write_failures' = IF wfail THEN write_failures + 1 ELSE write_failures
              /\ steps' = steps \o ReportedWrite(wfail) \o SilentUpdate(ufail)
              /\ mpc' = AfterDeliver(wfail)
    /\ UNCHANGED <<args, inst_vars, data_file, path_exists, plot_out, left_at,
                   trigger, disk0>>
    /\ UNCHANGED worker_vars
    /\ UNCHANGED config_vars
    /\ UNCHANGED driver_vars

\* a KeyboardInterrupt while line 323 waits, before a sample is returned:
\* caught by the bare except of line 355
MainInterruptWaiting ==
    /\ mpc = "loop"
    /\ ~LoopDone
    /\ Faults < MaxFaults
    /\ interrupts' = interrupts + 1
    /\ mpc' = "refresh"
    /\ UNCHANGED <<args, steps, inst_vars, hist_vars, file_vars, plot_out, dequeued,
                   left_at, write_failures, trigger, disk0, data_queue>>
    /\ UNCHANGED worker_vars
    /\ UNCHANGED config_vars
    /\ UNCHANGED driver_vars

\* lines 359-361: draw, flush_events, sleep(0.05)
MainRefresh ==
    /\ mpc = "refresh"
    /\ mpc' = "loop"
    /\ UNCHANGED <<args, steps, inst_vars, hist_vars, file_vars, plot_out, trace_vars, data_queue>>
    /\ UNCHANGED worker_vars
    /\ UNCHANGED config_vars
    /\ UNCHANGED driver_vars

\* fig.canvas.draw() or flush_events() raises an Exception (lines 359-360):
\* outside the inner try, not a KeyboardInterrupt, so it leaves the loop
\* through the finally clause and then leaves main
MainRefreshFails ==
    /\ mpc = "refresh"
    /\ Faults < MaxFaults
    /\ steps' = Append(steps, "refresh_raises")
    /\ mpc' = "finally"
    /\ left_at' = Len(produced)
    /\ trigger' = "error"
    /\ UNCHANGED <<args, inst_vars, hist_vars, file_vars, plot_out, interrupts, dequeued,
                   write_failures, disk0, data_queue>>
    /\ UNCHANGED worker_vars
    /\ UNCHANGED config_vars
    /\ UNCHANGED driver_vars

\* a KeyboardInterrupt at line 318 or at lines 359-361, outside the inner try:
\* caught at line 363, then the finally clause
MainInterrupt ==
    /\ mpc \in {"loop", "refresh"}
    /\ interrupts' = interrupts + 1
    /\ mpc' = "finally"
    /\ left_at' = Len(produced)
    /\ trigger' = "interrupt"
    /\ UNCHANGED <<args, steps, inst_vars, hist_vars, file_vars, plot_out, dequeued,
                   write_failures, disk0, data_queue>>
    /\ UNCHANGED worker_vars
    /\ UNCHANGED config_vars
    /\ UNCHANGED driver_vars

(* ---------------------------------------------------------------------- *)
(* main(): finally clause and export (lines 366-416)                       *)
(* ---------------------------------------------------------------------- *)
\* lines 367-368: close flushes what is buffered
DiskAfterClose == IF data_file = "open" THEN disk \o buf ELSE disk
FileAfterClose == IF data_file = "open" THEN "closed" ELSE data_file

\* what the finally clause can meet: every call returns; data_file.close()
\* raises (line 368); inst.close() raises inside qt.close() (qt7600.py line 44)
FinallyOutcomes ==
    {"ok"}
    \cup (IF data_file = "open" THEN {"file_close_raises"} ELSE {})
    \cup (IF ~args.mock_qt /\ qt_inst = "open" THEN {"qt_close_raises"} ELSE {})

\* the calls the finally clause makes, in order (lines 367-371): no statement of
\* the clause is in a try of its own, so a call that raises ends the clause
CallsOfFinally(o) ==
    (IF data_file # "none" THEN <<"data_file.close">> ELSE <<>>)
    \o (IF o # "file_close_raises" /\ ~args.mock_qt THEN <<"qt.close">> ELSE <<>>)
    \o (IF o = "ok" THEN <<"qd.close">> ELSE <<>>)

\* where main goes after the finally clause: on to line 374, or out of main
\* with the exception that a close raised or that brought it into the clause
AfterFinally(o) == IF o = "ok" /\ trigger # "error" THEN "export" ELSE "exited"

\* lines 366-372: data_file.close(), qt.close(), qd.close().
\* A close of the file that raises leaves the file closed and drops what was
\* buffered.  Qt7600.close sets inst to None also when inst.close() raises.
\* QuantumDesignClient.close (lines 111-118) exits the client and then the
\* server inside one try; when the first raises the second is skipped
MainFinally ==
    /\ mpc = "finally"
    /\ \E o \in FinallyOutcomes :
          /\ data_file' = FileAfterClose
          /\ disk' = IF o = "file_close_raises" THEN disk ELSE DiskAfterClose
          /\ buf' = <<>>
          /\ qt_inst' = IF args.mock_qt \/ o = "file_close_raises"
                        THEN qt_inst ELSE QtClose(qt_inst)
          /\ IF o # "ok" \/ args.mock_q \/ qd_client = "none"
             THEN UNCHANGED <<qd_client, qd_server>>
             ELSE \E client_exit_raises \in BOOLEAN :
                     /\ qd_client' = "exited"
                     /\ qd_server' = IF client_exit_raises THEN qd_server ELSE "exited"
          /\ steps' = steps \o CallsOfFinally(o)
          /\ mpc' = AfterFinally(o)
    /\ UNCHANGED <<args, hist_vars, path_exists, plot_out, trace_vars, data_queue>>
    /\ UNCHANGED worker_vars
    /\ UNCHANGED config_vars
    /\ UNCHANGED driver_vars

\* the rows of lines 404-405: zip(times, temps, fields, caps)
RewriteRows(tm, T, F, C) ==
    LET n == Min(Min(Len(tm), Len(T)), Min(Len(F), Len(C)))
    IN [i \in 1..n |-> FormatRow(tm[i], T[i], F[i], C[i])]

\* open(args.data, 'w') truncates; then the header and one row per zip position
RewrittenFile(tm, T, F, C) == <<HeaderRewrite>> \o RewriteRows(tm, T, F, C)

\* lines 395-397: main returns before saving anything when the series is empty
NothingToPlot == FinalXs(temps, fields, caps) = <<>>

\* lines 374-416: the filtered series; return when it is empty; otherwise
\* rewrite args.data in 'w' mode (the open may raise, caught at line 407,
\* leaving the file as it is) and save the figure, which holds the line as
\* last set at line 351
MainExport ==
    /\ mpc = "export"
    /\ IF NothingToPlot
       THEN UNCHANGED <<disk, path_exists, plot_out>>
       ELSE /\ IF args.data
               THEN \E opened \in BOOLEAN :
                       IF opened
                       THEN /\ disk' = RewrittenFile(times, temps, fields, caps)
                            /\ path_exists' = TRUE
                       ELSE UNCHANGED <<disk, path_exists>>
               ELSE UNCHANGED <<disk, path_exists>>
            /\ plot_out' = Some(line_data)
    /\ steps' = Append(steps, "export")
    /\ mpc' = "exited"
    /\ UNCHANGED <<args, inst_vars, hist_vars, data_file, buf, trace_vars, data_queue>>
    /\ UNCHANGED worker_vars
    /\ UNCHANGED config_vars
    /\ UNCHANGED driver_vars

Main ==
    \/ MainOpenQt
    \/ MainOpenQd
    \/ MainStartThread
    \/ MainOpenData
    \/ MainBreak
    \/ MainGetEmpty
    \/ MainDeliver
    \/ MainInterruptWaiting
    \/ MainRefresh
    \/ MainRefreshFails
    \/ MainInterrupt
    \/ MainFinally
    \/ MainExport

Next == Main \/ Worker

Spec == Init /\ [][Next]_vars

(* ---------------------------------------------------------------------- *)
(* Properties                                                              *)
(* ---------------------------------------------------------------------- *)
IsPrefix(a, b) == Len(a) <= Len(b) /\ \A i \in 1..Len(a) : a[i] = b[i]

\* main has left the delivery loop
ShutdownBegun == trigger # "none"

\* the last sample put on the queue
LastProduced == produced[Len(produced)]

\* C1: the samples dequeued so far are a prefix of the samples enqueued, and
\* what was enqueued is what was dequeued followed by what is still queued:
\* nothing lost, duplicated or reordered by the channel
C1_ChannelFifo ==
    /\ IsPrefix(dequeued, produced)
    /\ produced = dequeued \o data_queue

\* two different samples were produced and both dequeued
C1_Witness ==
    /\ Len(dequeued) >= 2
    /\ dequeued[1] # dequeued[2]

IsRow(l) == l[1] = "row"
\* the data rows written so far, flushed or not
RunRows == SelectSeq(disk \o buf, IsRow)

\* C2: the i-th entry of every History column and the i-th data row written
\* during the run are those of the i-th sample the worker produced
C2_DeliveryInOrder ==
    /\ \A i \in 1..Len(temps) : i <= Len(produced) /\ temps[i] = produced[i].temp
    /\ \A i \in 1..Len(caps) : i <= Len(produced) /\ caps[i] = produced[i].cap
    /\ \A i \in 1..Len(fields) : i <= Len(produced) /\ fields[i] = produced[i].field
    /\ \A i \in 1..Len(times) : i <= Len(produced) /\ times[i] = produced[i].time
    /\ mpc # "exited" =>
          \A i \in 1..Len(RunRows) :
              /\ i <= Len(produced)
              /\ RunRows[i] = FormatRow(produced[i].time, produced[i].temp,
                                        produced[i].field, produced[i].cap)

\* C3: when the loop is left by the sample limit, exactly args.samples samples
\* have been delivered to History and counted
C3_ExactlyLimitDelivered ==
    trigger = "limit" =>
        /\ sample_count = args.samples
        /\ Len(temps) = args.samples
        /\ Len(caps) = args.samples
        /\ Len(fields) = args.samples
        /\ Len(times) = args.samples

\* C4: every KeyboardInterrupt delivered to main takes it out of the loop and
\* into the finally clause
C4_InterruptEndsLoop == [][interrupts' > interrupts => mpc' = "finally"]_vars

\* History filtered to the positions whose axis value and capacitance are present
FilteredHistory ==
    LET a == AxisColumn(temps, fields)
        n == Min(Len(a), Len(caps))
    IN <<SelectPairs(a, caps, n, "x"), SelectPairs(a, caps, n, "y")>>

\* C5: after an interrupt ended the loop, the series in the saved plot is
\* History filtered to the samples with both values present
C5_PlotIsFilteredHistory ==
    (trigger = "interrupt" /\ plot_out # None) => plot_out = Some(FilteredHistory)

\* C6: the lines the file held when the run began stay at its head, unchanged
C6_AppendOnly == IsPrefix(disk0, disk)

\* C7: while the data file is open and no write has failed, every sample in
\* History but the last has its row flushed to the file
C7_AllButLastDurable ==
    (data_file = "open" /\ write_failures = 0) =>
        \A i \in 1..(Len(times) - 1) :
            \E j \in 1..Len(disk) :
                disk[j] = FormatRow(times[i], temps[i], fields[i], caps[i])

\* C8: a tick with an unavailable reading leaves the worker running
C8_WorkerSurvivesUnavailable ==
    (w.rt # <<>> /\ (w.t = None \/ w.f = None \/ w.cval = None)) => wpc = "running"

\* C9: after every tick the sample pushed last carries None exactly for the
\* reads that raised and the returned value for the others, and the tick did
\* push it: the pushes number the ticks performed
C9_RaiseBecomesNone ==
    w.rt # <<>> =>
        /\ produced # <<>>
        /\ LastProduced.temp = (IF w.rt[1] = "raise" THEN None ELSE <<w.rt[2]>>)
        /\ LastProduced.field = (IF w.rf[1] = "raise" THEN None ELSE <<w.rf[2]>>)
        /\ LastProduced.cap = (IF w.rc[1] = "raise" THEN None ELSE CapFromResponse(w.rc[2]))
        /\ Len(produced) = counter + (IF wpc = "dead" THEN 1 ELSE 0)
        /\ Len(dequeued) + Len(data_queue) = Len(produced)

\* live instruments, the temperature read raised and the other two returned;
\* the sample is on the channel with temperature None, field and capacitance set
C9_Witness ==
    /\ ~args.mock_q /\ ~args.mock_qt
    /\ w.rt = Raised /\ w.rf # Raised /\ w.rc # Raised
    /\ data_queue # <<>>
    /\ data_queue[Len(data_queue)].temp = None
    /\ data_queue[Len(data_queue)].field # None
    /\ data_queue[Len(data_queue)].cap # None

\* C10: once main has left the loop the worker pushes at most the sample of
\* the iteration in flight
C10_WorkerStopsAfterShutdown ==
    ShutdownBegun => Len(produced) <= left_at + 1

\* main has closed an instrument the worker reads: the QT-7600, or the MultiVu
\* client (a mock client has nothing to close)
ClosedByMain ==
    \/ Called("qt.close")
    \/ (Called("qd.close") /\ ~args.mock_q /\ qd_client = "exited")

\* C11: once main has closed an instrument the worker starts no further tick
\* (every tick reads both instruments)
C11_NoReadAfterClose == [][ClosedByMain => produced' = produced]_vars

\* main is past the finally clause of a run whose loop was entered
FinallyLeft == ShutdownBegun /\ mpc \in {"export", "exited"}

\* C12: when main has ended after the loop, every step of the shutdown
\* sequence was executed: the file that was opened was closed, the LCR meter
\* that exists was closed, the cryostat client was closed, the export ran
C12_AllStepsAttempted ==
    (ShutdownBegun /\ mpc = "exited") =>
        /\ data_file # "none" => Called("data_file.close")
        /\ ~args.mock_qt => Called("qt.close")
        /\ Called("qd.close")
        /\ Called("export")

\* C13: no close is ever executed twice, and once main is past the finally
\* clause each close that applies was executed exactly once, whatever the trigger
C13_ShutdownOnce ==
    /\ \A c \in {"data_file.close", "qt.close", "qd.close"} : Count(c) <= 1
    /\ FinallyLeft =>
          /\ Count("data_file.close") = (IF data_file # "none" THEN 1 ELSE 0)
          /\ Count("qt.close") = (IF args.mock_qt THEN 0 ELSE 1)
          /\ Count("qd.close") = 1

\* a startup step failed: opening or configuring the LCR meter, or opening
\* the cryostat client
StartupFailed == \E o \in StartupFailures : Called(o)

\* C14: after a startup failure the worker thread was never started, no
\* sample was acquired or pushed, and the data file was neither opened nor
\* written
C14_NoPipelineAfterStartupFailure ==
    StartupFailed =>
        /\ wpc = "idle"
        /\ w = NoLocals
        /\ produced = <<>>
        /\ data_queue = <<>>
        /\ data_file = "none"
        /\ buf = <<>>
        /\ disk = disk0

\* the LCR meter opened, the cryostat client did not connect, main has returned
C14_Witness ==
    /\ Called("client_fails")
    /\ ~args.mock_qt
    /\ args.data
    /\ mpc = "exited"

\* C15: when main has returned after a startup failure, nothing acquired
\* before the failure is still held: the VISA session is closed, the MultiVu
\* server and client are not left entered
C15_StartupFailureReleasesAll ==
    (StartupFailed /\ mpc = "exited") =>
        /\ qt_inst # "open"
        /\ qd_server # "entered"
        /\ qd_client # "entered"

\* C16: a step in which data_file.write raises appends the dequeued sample to
\* all four History columns, counts it, leaves main inside the loop with no
\* exit trigger and leaves the data file open for the rows of later samples
C16_WriteFailureContinues ==
    [][write_failures' > write_failures =>
          /\ temps' = Append(temps, Head(data_queue).temp)
          /\ caps' = Append(caps, Head(data_queue).cap)
          /\ fields' = Append(fields, Head(data_queue).field)
          /\ times' = Append(times, Head(data_queue).time)
          /\ sample_count' = sample_count + 1
          /\ mpc' = "refresh"
          /\ trigger' = "none"
          /\ data_file' = "open"]_vars

\* the write of the first sample raised; the second sample was delivered
\* after it and its row is in the file
C16_Witness ==
    /\ write_failures = 1
    /\ sample_count = 2
    /\ Len(times) = 2
    /\ \E j \in 1..Len(disk) :
          disk[j] = FormatRow(times[2], temps[2], fields[2], caps[2])
    /\ \A j \in 1..Len(disk) :
          disk[j] # FormatRow(times[1], temps[1], fields[1], caps[1])

\* C17: with continuous set, the loop is never left by the sample-limit break
\* and once it has been left the trigger is an interrupt
C17_ContinuousIgnoresLimit ==
    args.continuous =>
        /\ trigger # "limit"
        /\ mpc \in {"finally", "export", "exited"} /\ ~StartupFailed => trigger = "interrupt"

\* continuous with a limit of 0: more samples than the limit were delivered
\* and main is still at the top of the loop
C17_Witness ==
    /\ args.continuous
    /\ args.samples = 0
    /\ sample_count = 2
    /\ mpc = "loop"
    /\ trigger = "none"

\* C18: whenever main is at the top of the loop, the number of samples
\* dequeued, sample_count and the lengths of the four History columns agree
C18_ColumnsInStep ==
    mpc = "loop" =>
        /\ sample_count = Len(dequeued)
        /\ Len(temps) = Len(dequeued)
        /\ Len(caps) = Len(dequeued)
        /\ Len(fields) = Len(dequeued)
        /\ Len(times) = Len(dequeued)

\* reading a cell of a data row back: the text "None" is an unavailable reading
ParseOpt(x) == IF x = <<"None">> THEN None ELSE Some(x[2])

\* the temperature, field and capacitance read back from a data row
ReadBack(l) == [temp |-> ParseOpt(l[2][2]), field |-> ParseOpt(l[2][3]),
                cap |-> ParseOpt(l[2][4])]

\* the data rows of the file, in file order
DataRows == SelectSeq(disk, IsRow)

\* the run came to its end on a data path that did not exist before, the file
\* now exists, and no write of a row raised
RunCompletedOnNewPath ==
    /\ mpc = "exited"
    /\ Called("export")
    /\ args.data
    /\ disk0 = <<>>
    /\ path_exists
    /\ write_failures = 0

\* C19: after such a run the data rows read back are, row for row, the
\* temperature, field and capacitance of the samples of History in History order
C19_RoundTrip ==
    RunCompletedOnNewPath =>
        /\ Len(caps) = Len(temps)
        /\ Len(fields) = Len(temps)
        /\ Len(DataRows) = Len(temps)
        /\ \A i \in 1..Len(temps) :
              /\ ReadBack(DataRows[i]).temp = temps[i]
              /\ ReadBack(DataRows[i]).field = fields[i]
              /\ ReadBack(DataRows[i]).cap = caps[i]

\* C20: with the mock cryostat client the i-th sample produced (tick i - 1)
\* carries temperature 300 - 5 * (i - 1); and after a run ended by the sample
\* limit on a new data path the file holds exactly args.samples data rows,
\* the i-th with temperature 300 - 5 * (i - 1)
C20_MockRamp ==
    args.mock_q =>
        /\ \A i \in 1..Len(produced) : produced[i].temp = Some(300 - 5 * (i - 1))
        /\ (RunCompletedOnNewPath /\ trigger = "limit") =>
              /\ Len(DataRows) = args.samples
              /\ \A i \in 1..Len(DataRows) :
                    ReadBack(DataRows[i]).temp = Some(300 - 5 * (i - 1))

\* C21: with the mock cryostat client and the mock LCR meter no sample
\* produced carries None for temperature, field or capacitance
C21_MockNeverUnavailable ==
    (args.mock_q /\ args.mock_qt) =>
        \A i \in 1..Len(produced) :
            /\ produced[i].temp # None
            /\ produced[i].field # None
            /\ produced[i].cap # None

IsHeader(l) == l = HeaderAppend \/ l = HeaderRewrite

\* C22: in a run on a path that existed when the run began, the file never
\* holds a header line written by the run
C22_HeaderOnlyOnNewFile ==
    disk0 # <<>> => \A j \in 1..Len(disk) : ~IsHeader(disk[j])

\* C23: a run that went through its shutdown and reached the export has
\* saved the final plot
C23_ArtifactProduced ==
    (mpc = "exited" /\ Called("export")) => plot_out # None

\* line i of the config file sets option k: it names k and carries a value
\* (a number for interval and samples, a non-empty text for the paths and the axis)
SetsOption(i, k) ==
    /\ config_file[i][1] = k
    /\ IF k \in {"interval", "samples"} THEN config_file[i][2] \in NumericTexts
       ELSE IF k = "continuous" THEN TRUE
       ELSE config_file[i][2] # ""

FileSets(k) == \E i \in 1..Len(config_file) : SetsOption(i, k)

\* the text of the last line of the file that sets k
FileText(k) ==
    LET i == CHOOSE i \in 1..Len(config_file) :
                 /\ SetsOption(i, k)
                 /\ \A j \in (i + 1)..Len(config_file) : ~SetsOption(j, k)
    IN config_file[i][2]

\* C24: every resolved option is the command-line value when one is given,
\* else the value the config file sets when it sets the option, else the
\* built-in default
C24_OverrideFileDefault ==
    resolved # None =>
        LET r == resolved[1]
        IN  /\ r.interval = (IF argv.interval # None THEN argv.interval[1]
                             ELSE IF FileSets("interval") THEN NumberOf(FileText("interval"))
                             ELSE 1)
            /\ r.samples = (IF argv.samples # None THEN argv.samples[1]
                            ELSE IF FileSets("samples") THEN NumberOf(FileText("samples"))
                            ELSE 20)
            /\ r.continuous = (IF argv.continuous # None THEN argv.continuous[1]
                               ELSE IF FileSets("continuous")
                               THEN Lower(FileText("continuous")) \in TruthTexts
                               ELSE TRUE)
            /\ r.plot_vs = (IF argv.plot_vs # None THEN argv.plot_vs[1]
                            ELSE IF FileSets("plot_vs") THEN FileText("plot_vs")
                            ELSE "temperature")
            /\ r.out = (IF argv.out # None THEN argv.out[1]
                        ELSE IF FileSets("out") THEN FileText("out")
                        ELSE "cvst.png")
            /\ r.data = (IF argv.data # None THEN argv.data
                         ELSE IF FileSets("data") THEN Some(FileText("data"))
                         ELSE None)

\* the elapsed times of a sequence of samples never decrease
TimesAscend(q) == \A i \in 1..(Len(q) - 1) : q[i].time <= q[i + 1].time

\* C25: elapsed times are non-decreasing in the order the worker pushed the
\* samples, in the order main dequeued them, along what is still queued, and
\* along the times column of History
C25_ElapsedNonDecreasing ==
    /\ TimesAscend(produced)
    /\ TimesAscend(dequeued)
    /\ TimesAscend(data_queue)
    /\ \A i \in 1..(Len(times) - 1) : times[i] <= times[i + 1]

\* two samples taken one interval apart are both in History
C25_Witness ==
    /\ Len(times) = 2
    /\ Len(dequeued) = 2
    /\ times[1] < times[2]

\* failures met in the delivery, persistence and render path of the loop
LoopFailures == {"write_raises", "plot_update_raises", "refresh_raises"}

\* C26: every step in which a failure of the loop's delivery, persistence or
\* render path occurs prints a message for it and leaves main inside the loop
C26_FailureReportedLoopGoesOn ==
    [][\A i \in (Len(steps) + 1)..Len(steps') :
          steps'[i] \in LoopFailures =>
              /\ mpc' \in {"loop", "refresh"}
              /\ i < Len(steps')
              /\ steps'[i + 1] = "print"]_vars

\* C27: an iteration that takes samples from the channel and is cut short by
\* no interrupt leaves none of the samples it found there for a later
\* iteration: the channel is empty when the iteration goes on to its refresh
C27_IterationDrainsChannel ==
    [][(mpc = "loop" /\ mpc' = "refresh" /\ data_queue # <<>> /\ interrupts' = interrupts)
          => data_queue' = <<>>]_vars

\* C28: main is never stuck in the loop: at the top of an iteration the break,
\* the timed-out get or a delivery can be taken whatever the channel holds,
\* and after it the refresh can be taken, which leads back to the top
C28_LoopNeverBlocks ==
    /\ mpc = "loop" => ENABLED (MainBreak \/ MainGetEmpty \/ MainDeliver)
    /\ mpc = "refresh" => ENABLED MainRefresh

\* the worker has died, its only sample was consumed, the channel is empty
\* and stays so, and main is at the top of a further iteration
C28_Witness ==
    /\ wpc = "dead"
    /\ data_queue = <<>>
    /\ Len(dequeued) = 1
    /\ mpc = "loop"
    /\ ~LoopDone

PlotAxes == {"temperature", "field"}
InDomain(r) ==
    /\ r.plot_vs \in PlotAxes
    /\ r.interval > 0
    /\ r.samples >= 0

\* C31: whatever the config file and the command line hold, the resolved
\* configuration has plot_vs one of temperature or field, interval > 0 and
\* samples >= 0
C31_ResolvedInDomain ==
    resolved # None => InDomain(resolved[1])

\* a file and command line for which the resolved configuration leaves the
\* domains
C31_Witness ==
    /\ resolved # None
    /\ ~InDomain(resolved[1])

(* ---------------------------------------------------------------------- *)
(* Qt7600 (qt7600.py) as an object: any caller, one call after another     *)
(* ---------------------------------------------------------------------- *)
\* a caller makes at most MaxCalls method calls
MaxCalls == 3

\* one request to the layer beneath a wrapper: the handle it went to (0: the
\* resource manager, or no handle), the operation, its argument, and whether
\* it raised
IO(h, op, arg, raised) == [on |-> h, op |-> op, arg |-> arg, raised |-> raised]

\* the handle self.inst holds when it is not None: the one the latest
\* successful open_resource returned (handles are numbered as they are made)
Handle(log) ==
    Cardinality({i \in 1..Len(log) : log[i].op = "open_resource" /\ ~log[i].raised})

\* what a method call leaves: self.inst, the requests made so far, and how the
\* call ended ("returned", "ValueError", "RuntimeError", or "raised" for an
\* exception of the layer beneath)
Ended(inst, log, res) == [inst |-> inst, io |-> log, res |-> res]

\* Qt7600.open(resource_name=rn): o is what the VISA layer does
OpenOutcomes == {"ok", "open_resource_raises", "timeout_raises"}
Qt7600_open(inst, log, rn, o) ==
    LET name == IF rn # NoText THEN rn ELSE resource_name
        h == Handle(log) + 1
    IN  IF name = NoText THEN Ended(inst, log, "ValueError")
        ELSE IF o = "open_resource_raises"
        THEN Ended(inst, Append(log, IO(0, "open_resource", name, TRUE)), "raised")
        ELSE Ended("open",
                   log \o <<IO(h, "open_resource", name, FALSE),
                            IO(h, "timeout", "", o = "timeout_raises")>>,
                   IF o = "timeout_raises" THEN "raised" ELSE "returned")

\* a close without the finally clause: inst is kept when inst.close() raises
Qt7600_close_NoFinally(inst, log, raises) ==
    IF inst = "open"
    THEN Ended(IF raises THEN inst ELSE QtClose(inst),
               Append(log, IO(Handle(log), "close", "", raises)),
               IF raises THEN "raised" ELSE "returned")
    ELSE Ended(inst, log, "returned")

\* Qt7600.close(): raises is whether inst.close() raises
Qt7600_close(inst, log, raises) ==
    IF inst = "open"
    THEN Ended(QtClose(inst), Append(log, IO(Handle(log), "close", "", raises)),
               IF raises THEN "raised" ELSE "returned")
    ELSE Ended(inst, log, "returned")

\* a write without the test of self.inst
Qt7600_write_Unguarded(inst, log, cmd, raises) ==
    Ended(inst, Append(log, IO(Handle(log), "write", cmd, raises)),
          IF raises THEN "raised" ELSE "returned")

\* Qt7600.write(cmd)
Qt7600_write(inst, log, cmd, raises) ==
    IF inst # "open" THEN Ended(inst, log, "RuntimeError")
    ELSE Ended(inst, Append(log, IO(Handle(log), "write", cmd, raises)),
               IF raises THEN "raised" ELSE "returned")

\* Qt7600.read()
Qt7600_read(inst, log, raises) ==
    IF inst # "open" THEN Ended(inst, log, "RuntimeError")
    ELSE Ended(inst, Append(log, IO(Handle(log), "read", "", raises)),
               IF raises THEN "raised" ELSE "returned")

\* Qt7600.query(cmd)
Qt7600_query(inst, log, cmd, raises) ==
    IF inst # "open" THEN Ended(inst, log, "RuntimeError")
    ELSE Ended(inst, Append(log, IO(Handle(log), "query", cmd, raises)),
               IF raises THEN "raised" ELSE "returned")

\* Qt7600.measure() and Qt7600.fetch()
Qt7600_measure(inst, log, raises) == Qt7600_write(inst, log, "MEAS:", raises)
Qt7600_fetch(inst, log, raises) == Qt7600_query(inst, log, "FETC?", raises)

\* a measure_and_fetch that fetches also after a trigger that raised
Qt7600_measure_and_fetch_FetchAnyway(inst, log, wraises, qraises) ==
    LET m == Qt7600_measure(inst, log, wraises)
    IN  IF m.res = "RuntimeError" THEN m ELSE Qt7600_fetch(m.inst, m.io, qraises)

\* Qt7600.measure_and_fetch(): measure(), then fetch() unless measure raised
Qt7600_measure_and_fetch(inst, log, wraises, qraises) ==
    LET m == Qt7600_measure(inst, log, wraises)
    IN  IF m.res # "returned" THEN m ELSE Qt7600_fetch(m.inst, m.io, qraises)

\* Qt7600.__enter__()
Qt7600_enter(inst, log, o) ==
    IF inst # "open" /\ resource_name # NoText
    THEN Qt7600_open(inst, log, NoText, o)
    ELSE Ended(inst, log, "returned")

\* an __exit__ that does not close
Qt7600_exit_Nothing(inst, log, raises) == Ended(inst, log, "returned")

\* Qt7600.__exit__(exc_type, exc, tb)
Qt7600_exit(inst, log, raises) == Qt7600_close(inst, log, raises)

\* the objects as a call finds or leaves them
Snapshot(inst, client, server, log, w_) ==
    [inst |-> inst, client |-> client, server |-> server, n |-> Len(log), in_with |-> w_]

\* what a method call of either wrapper leaves unchanged
driver_frame == <<args, mpc, hist_vars, file_vars, plot_out, trace_vars, steps,
                  worker_vars, data_queue, config_vars, resource_name>>

\* a Qt7600 method call op(arg) ends as r, inside or outside a with block
QtCall(op, arg, r, w_) ==
    /\ qt_inst' = r.inst
    /\ io' = r.io
    /\ in_with' = w_
    /\ calls' = Append(calls,
                       [op |-> op, arg |-> arg, res |-> r.res,
                        pre |-> Snapshot(qt_inst, qd_client, qd_server, io, in_with),
                        post |-> Snapshot(r.inst, qd_client, qd_server, r.io, w_)])
    /\ UNCHANGED <<qd_client, qd_server>>
    /\ UNCHANGED driver_frame

QtOpen ==
    /\ Len(calls) < MaxCalls
    /\ \E rn \in {NoText, ResourceName}, o \in OpenOutcomes :
          QtCall("open", rn, Qt7600_open(qt_inst, io, rn, o), in_with)

QtCloseCall ==
    /\ Len(calls) < MaxCalls
    /\ \E raises \in BOOLEAN :
          QtCall("close", "", Qt7600_close(qt_inst, io, raises), in_with)

QtWrite ==
    /\ Len(calls) < MaxCalls
    /\ \E raises \in BOOLEAN :
          QtCall("write", "MEAS:", Qt7600_write(qt_inst, io, "MEAS:", raises), in_with)

QtRead ==
    /\ Len(calls) < MaxCalls
    /\ \E raises \in BOOLEAN :
          QtCall("read", "", Qt7600_read(qt_inst, io, raises), in_with)

QtQuery ==
    /\ Len(calls) < MaxCalls
    /\ \E raises \in BOOLEAN :
          QtCall("query", "FETC?", Qt7600_query(qt_inst, io, "FETC?", raises), in_with)

QtMeasureAndFetch ==
    /\ Len(calls) < MaxCalls
    /\ \E wraises, qraises \in BOOLEAN :
          QtCall("measure_and_fetch", "",
                 Qt7600_measure_and_fetch(qt_inst, io, wraises, qraises), in_with)

\* `with qt:` the block is entered when __enter__ returns
QtEnter ==
    /\ Len(calls) < MaxCalls
    /\ ~in_with
    /\ \E o \in OpenOutcomes :
          LET r == Qt7600_enter(qt_inst, io, o)
          IN  QtCall("__enter__", "", r, r.res = "returned")

\* the block ends, normally (arg "") or by an exception raised in it
QtExit ==
    /\ Len(calls) < MaxCalls
    /\ in_with
    /\ \E exc \in {"", "exception"}, raises \in BOOLEAN :
          QtCall("__exit__", exc, Qt7600_exit(qt_inst, io, raises), FALSE)

\* a Qt7600 made with or without a resource_name, not yet opened
InitQt ==
    /\ resource_name \in {NoText, ResourceName}
    /\ args = [continuous |-> FALSE, samples |-> 0, plot_vs |-> "temperature",
               data |-> FALSE, mock_q |-> TRUE, mock_qt |-> FALSE, interval |-> 1]
    /\ config_file = <<>>
    /\ argv = NoOverrides
    /\ resolved = None
    /\ BeforeOpen

NextQt ==
    \/ QtOpen
    \/ QtCloseCall
    \/ QtWrite
    \/ QtRead
    \/ QtQuery
    \/ QtMeasureAndFetch
    \/ QtEnter
    \/ QtExit

SpecQt == InitQt /\ [][NextQt]_vars

\* the requests call c made to the layer beneath, in order
Requests(c) == SubSeq(io, c.pre.n + 1, c.post.n)

\* the calls of method op made so far
CallsOf(op) == {i \in 1..Len(calls) : calls[i].op = op}

IsTrigger(e, h) == e.op = "write" /\ e.arg = "MEAS:" /\ e.on = h
IsFetch(e, h) == e.op = "query" /\ e.arg = "FETC?" /\ e.on = h

\* every measure_and_fetch on an open instrument sends one MEAS: and then one
\* FETC?, whatever the instrument answers
C32_TriggerThenFetchAlways ==
    \A i \in CallsOf("measure_and_fetch") :
        calls[i].pre.inst = "open" =>
            LET seg == Requests(calls[i])
                h == seg[1].on
            IN  /\ Len(seg) = 2
                /\ IsTrigger(seg[1], h)
                /\ IsFetch(seg[2], h)

\* C32: every measure_and_fetch on an open instrument sends exactly one MEAS:
\* first; when that write returns it sends exactly one FETC? to the same
\* handle next and nothing else, and when the write raises it sends nothing
\* more: no FETC? of the call is without its MEAS: before it
C32_TriggerThenFetch ==
    \A i \in CallsOf("measure_and_fetch") :
        calls[i].pre.inst = "open" =>
            LET seg == Requests(calls[i])
                h == seg[1].on
            IN  /\ Len(seg) >= 1
                /\ IsTrigger(seg[1], h)
                /\ h >= 1
                /\ IF seg[1].raised
                   THEN Len(seg) = 1 /\ calls[i].res = "raised"
                   ELSE /\ Len(seg) = 2
                        /\ IsFetch(seg[2], h)
                        /\ calls[i].res = (IF seg[2].raised THEN "raised" ELSE "returned")

\* one measure_and_fetch on an open instrument returned and another met a
\* trigger write that raised
C32_Witness ==
    /\ \E i \in CallsOf("measure_and_fetch") :
          calls[i].pre.inst = "open" /\ calls[i].res = "returned"
    /\ \E i \in CallsOf("measure_and_fetch") :
          calls[i].pre.inst = "open" /\ Len(Requests(calls[i])) = 1

(* ---------------------------------------------------------------------- *)
(* Fixed-count runs under fair scheduling                                  *)
(* ---------------------------------------------------------------------- *)
\* a run with --no-continuous and a sample limit the worker's MaxTicks
\* iterations can meet
InitFair ==
    /\ args \in [continuous : {FALSE}, samples : 0..MaxTicks,
                 plot_vs : {"temperature", "field"}, data : BOOLEAN,
                 mock_q : BOOLEAN, mock_qt : BOOLEAN, interval : {1}]
    /\ config_file = <<>>
    /\ argv = NoOverrides
    /\ resolved = None
    /\ resource_name = ResourceName
    /\ BeforeOpen

\* the main thread and the daemon thread each run whenever they can
SpecFair == InitFair /\ [][Next]_vars /\ WF_vars(Main) /\ WF_vars(Worker)

\* main is inside the while loop of lines 316-361
InLoop == mpc \in {"loop", "refresh"}

\* C33: with --no-continuous and no KeyboardInterrupt, a run that has entered
\* the delivery loop eventually leaves it
C33_FixedCountTerminates ==
    (~args.continuous /\ InLoop) ~> (~InLoop \/ interrupts > 0)

\* the same for runs whose temperature and field are simulated, so that no
\* reading of them is None
C33_TerminatesWithMockQ ==
    (~args.continuous /\ args.mock_q /\ InLoop) ~> (~InLoop \/ interrupts > 0)

\* the methods that talk to the instrument through self.inst
Transfers == {"write", "read", "query"}

\* C34: a write, read or query called while inst is None ends with
\* RuntimeError, makes no request to the VISA layer and leaves the object as
\* it was; and every write, read or query request the VISA layer has seen was
\* made by a call that found the instrument open
C34_ClosedMeansNoIO ==
    /\ \A i \in 1..Len(calls) :
          (calls[i].op \in Transfers /\ calls[i].pre.inst # "open") =>
              /\ calls[i].res = "RuntimeError"
              /\ Requests(calls[i]) = <<>>
              /\ calls[i].post = calls[i].pre
    /\ \A i \in 1..Len(calls) :
          \A k \in 1..Len(Requests(calls[i])) :
              Requests(calls[i])[k].op \in Transfers =>
                  /\ calls[i].pre.inst = "open"
                  /\ Requests(calls[i])[k].on >= 1

\* a write, read or query called on an instrument that was opened and then
\* closed
C34_Witness ==
    \E i \in 1..Len(calls) :
        /\ calls[i].op \in Transfers
        /\ calls[i].pre.inst # "open"
        /\ \E j \in 1..(i - 1) : calls[j].op = "close" /\ calls[j].pre.inst = "open"

\* the handles open_resource has returned so far
Handles == 1..Handle(io)

\* how often handle h was asked to close
ClosesOf(h) == Cardinality({k \in 1..Len(io) : io[k].op = "close" /\ io[k].on = h})

\* C35: after every close(), returned or raised, inst is None; a close() that
\* finds inst None returns and makes no request; no handle is asked to close
\* more than once
C35_CloseIdempotent ==
    /\ \A i \in CallsOf("close") :
          /\ calls[i].post.inst = "none"
          /\ calls[i].pre.inst # "open" =>
                /\ calls[i].res = "returned"
                /\ Requests(calls[i]) = <<>>
                /\ calls[i].post = calls[i].pre
          /\ calls[i].pre.inst = "open" =>
                /\ Len(Requests(calls[i])) = 1
                /\ Requests(calls[i])[1].op = "close"
    /\ \A h \in Handles : ClosesOf(h) <= 1

\* a close() whose inst.close() raised, followed by a second close()
C35_Witness ==
    \E i \in CallsOf("close") :
        /\ calls[i].pre.inst = "open"
        /\ calls[i].res = "raised"
        /\ (i + 1) \in CallsOf("close")

\* call c asked the resource manager for a handle
AskedToOpen(c) ==
    \E k \in 1..Len(Requests(c)) : Requests(c)[k].op = "open_resource"

\* C37: when a with block ends, normally or by an exception, __exit__ has
\* called close(): inst is None, and the handle the block held was asked to
\* close; __enter__ asks for a handle exactly when inst is None and a
\* resource_name is set, and otherwise leaves the object as it was
C37_WithReleases ==
    /\ \A i \in CallsOf("__exit__") :
          /\ calls[i].post.inst = "none"
          /\ ~calls[i].post.in_with
          /\ calls[i].pre.inst = "open" =>
                /\ Len(Requests(calls[i])) = 1
                /\ Requests(calls[i])[1].op = "close"
                /\ Requests(calls[i])[1].on >= 1
          /\ calls[i].pre.inst # "open" => Requests(calls[i]) = <<>>
    /\ \A i \in CallsOf("__enter__") :
          /\ AskedToOpen(calls[i]) <=>
                (calls[i].pre.inst # "open" /\ resource_name # NoText)
          /\ ~AskedToOpen(calls[i]) =>
                /\ calls[i].res = "returned"
                /\ calls[i].post.inst = calls[i].pre.inst
                /\ Requests(calls[i]) = <<>>
    /\ in_with => calls # <<>>

\* a with block that opened the instrument was left by an exception
C37_Witness ==
    \E i \in CallsOf("__exit__") :
        /\ calls[i].arg = "exception"
        /\ calls[i].pre.inst = "open"
        /\ \E j \in CallsOf("__enter__") : j < i /\ AskedToOpen(calls[j])

(* ---------------------------------------------------------------------- *)
(* QuantumDesignClient (plot_cvst.py lines 93-146) as an object            *)
(* ---------------------------------------------------------------------- *)
\* what a QuantumDesignClient method call leaves: self.client, self.server,
\* the requests made so far, and how the call ended
QdEnded(client, server, log, res) ==
    [client |-> client, server |-> server, io |-> log, res |-> res]

\* QuantumDesignClient.open(): "import_fails" is the ImportError of line 105,
\* "server_fails" / "client_fails" an __enter__ of lines 108 / 109 that raises
QdOpenOutcomes == {"ok", "import_fails", "server_fails", "client_fails"}
QuantumDesignClient_open(client, server, log, o) ==
    IF args.mock_q THEN QdEnded(client, server, log, "returned")
    ELSE IF o = "import_fails" THEN QdEnded(client, server, log, "raised")
    ELSE IF o = "server_fails"
    THEN QdEnded(client, server, Append(log, IO(0, "server.__enter__", "", TRUE)), "raised")
    ELSE QdEnded(IF o = "ok" THEN "entered" ELSE client,
                 "entered",
                 log \o <<IO(0, "server.__enter__", "", FALSE),
                          IO(0, "client.__enter__", "", o = "client_fails")>>,
                 IF o = "ok" THEN "returned" ELSE "raised")

\* QuantumDesignClient.close(): client.__exit__ and server.__exit__ inside one
\* try whose except passes; self.client is not reset
QdCloseOutcomes == {"ok", "client_exit_raises", "server_exit_raises"}
QuantumDesignClient_close(client, server, log, o) ==
    IF args.mock_q \/ client = "none" THEN QdEnded(client, server, log, "returned")
    ELSE IF o = "client_exit_raises"
    THEN QdEnded("exited", server, Append(log, IO(0, "client.__exit__", "", TRUE)),
                 "returned")
    ELSE QdEnded("exited", "exited",
                 log \o <<IO(0, "client.__exit__", "", FALSE),
                          IO(0, "server.__exit__", "", o = "server_exit_raises")>>,
                 "returned")

\* QuantumDesignClient.get_temperature() / get_field(): what is the request
\* made of the client (lines 131 / 145)
QuantumDesignClient_get(client, server, log, what, raises) ==
    IF args.mock_q THEN QdEnded(client, server, log, "returned")
    ELSE IF client = "none" THEN QdEnded(client, server, log, "RuntimeError")
    ELSE QdEnded(client, server, Append(log, IO(0, what, "", raises)),
                 IF raises THEN "raised" ELSE "returned")

\* a QuantumDesignClient method call op ends as r
QdCall(op, r) ==
    /\ qd_client' = r.client
    /\ qd_server' = r.server
    /\ io' = r.io
    /\ calls' = Append(calls,
                       [op |-> op, arg |-> "", res |-> r.res,
                        pre |-> Snapshot(qt_inst, qd_client, qd_server, io, in_with),
                        post |-> Snapshot(qt_inst, r.client, r.server, r.io, in_with)])
    /\ UNCHANGED <<qt_inst, in_with>>
    /\ UNCHANGED driver_frame

\* the program opens the client once (line 254): open() is called on an
\* object that holds neither a server nor a client
QdOpen ==
    /\ Len(calls) < MaxCalls
    /\ qd_client = "none"
    /\ qd_server = "none"
    /\ \E o \in QdOpenOutcomes :
          QdCall("qd.open", QuantumDesignClient_open(qd_client, qd_server, io, o))

QdCloseCall ==
    /\ Len(calls) < MaxCalls
    /\ \E o \in QdCloseOutcomes :
          QdCall("qd.close", QuantumDesignClient_close(qd_client, qd_server, io, o))

QdGetTemperature ==
    /\ Len(calls) < MaxCalls
    /\ \E raises \in BOOLEAN :
          QdCall("qd.get_temperature",
                 QuantumDesignClient_get(qd_client, qd_server, io,
                                         "client.get_temperature", raises))

QdGetField ==
    /\ Len(calls) < MaxCalls
    /\ \E raises \in BOOLEAN :
          QdCall("qd.get_field",
                 QuantumDesignClient_get(qd_client, qd_server, io,
                                         "client.get_field", raises))

\* a QuantumDesignClient made with mock or not, not yet opened
InitQd ==
    /\ args \in [continuous : {FALSE}, samples : {0}, plot_vs : {"temperature"},
                 data : {FALSE}, mock_q : BOOLEAN, mock_qt : {TRUE}, interval : {1}]
    /\ resource_name = NoText
    /\ config_file = <<>>
    /\ argv = NoOverrides
    /\ resolved = None
    /\ BeforeOpen

NextQd ==
    \/ QdOpen
    \/ QdCloseCall
    \/ QdGetTemperature
    \/ QdGetField

SpecQd == InitQd /\ [][NextQd]_vars

\* how often the MultiVu object was asked for operation op
RequestsOf(op) == Cardinality({k \in 1..Len(io) : io[k].op = op})

\* C36: a close() that finds the server entered leaves it exited, whether
\* or not the client was entered and whether or not exiting the client
\* raises; and client and server are each exited at most once
C36_CloseReleasesAll ==
    /\ \A i \in CallsOf("qd.close") :
          calls[i].pre.server = "entered" => calls[i].post.server = "exited"
    /\ RequestsOf("client.__exit__") <= 1
    /\ RequestsOf("server.__exit__") <= 1

\* open() entered the server and a close() followed
C36_Witness ==
    \E i \in CallsOf("qd.close") :
        /\ calls[i].pre.server = "entered"
        /\ \E j \in CallsOf("qd.open") : j < i

\* the three parts of C36 one at a time
C36_ServerExitedAfterClientFailed ==
    \A i \in CallsOf("qd.close") :
        (calls[i].pre.server = "entered" /\ calls[i].pre.client = "none")
            => calls[i].post.server = "exited"

C36_ServerExitedWhenClientEntered ==
    \A i \in CallsOf("qd.close") :
        (calls[i].pre.server = "entered" /\ calls[i].pre.client = "entered")
            => calls[i].post.server = "exited"

C36_ExitedAtMostOnce ==
    /\ RequestsOf("client.__exit__") <= 1
    /\ RequestsOf("server.__exit__") <= 1
====
